---- MODULE Spec2Model ----
(***************************************************************************)
(* State-machine model of HdyLeaflet (src/src/hdy-leaflet.c): the adaptive *)
(* container that folds/unfolds according to the allocated size and        *)
(* animates mode transitions and child transitions, the latter being       *)
(* drivable by the frame clock or by a swipe gesture.                      *)
(*                                                                         *)
(* Conventions                                                             *)
(*  - Child widgets are the numbers 1..MaxChildren, NULL is 0.  A child    *)
(*    info and its widget are identified (one info per widget).            *)
(*  - Sizes are the sizes along the leaflet's orientation.                 *)
(*  - Positions and progresses (gdouble in 0.0 .. 1.0) are the integers    *)
(*    0 .. Steps, Steps standing for 1.0.                                  *)
(*  - A GtkProgressTracker is the integer 0 .. Steps of its iteration      *)
(*    progress; it is in GTK_PROGRESS_STATE_AFTER iff it equals Steps.     *)
(*  - The handlers are pure operators from a state record to a state       *)
(*    record; an action applies the whole handler to the current state.    *)
(*  - A NULL dereference or a failed assertion sets crashed; a crashed     *)
(*    process takes no further step.                                       *)
(*  - The model covers the life of the widget before its destruction.      *)
(***************************************************************************)
EXTENDS Integers, Sequences, FiniteSets, TLC

\* ------------------------------------------------------------------ bounds
MaxChildren == 3
FewChildren == 2
Steps == 1
MaxAlloc == 4

\* --------------------------------------------------------------- constants
NULL == 0
DefaultModeDuration == 250
DefaultChildDuration == 200

Widgets == 1..MaxChildren
Positions == 0..Steps
AllocSizes == 0..MaxAlloc
Durations == {0, DefaultChildDuration}
ModeDurations == {0, DefaultModeDuration}
Names == {"a", "b"}
NoName == "null"

HDY_LEAFLET_TRANSITION_TYPE_NONE == "none"
HDY_LEAFLET_TRANSITION_TYPE_SLIDE == "slide"
HDY_LEAFLET_TRANSITION_TYPE_OVER == "over"
HDY_LEAFLET_TRANSITION_TYPE_UNDER == "under"
TransitionTypes ==
  { HDY_LEAFLET_TRANSITION_TYPE_NONE, HDY_LEAFLET_TRANSITION_TYPE_SLIDE,
    HDY_LEAFLET_TRANSITION_TYPE_OVER, HDY_LEAFLET_TRANSITION_TYPE_UNDER }

HDY_NAVIGATION_DIRECTION_BACK == "back"
HDY_NAVIGATION_DIRECTION_FORWARD == "forward"
NavigationDirections ==
  { HDY_NAVIGATION_DIRECTION_BACK, HDY_NAVIGATION_DIRECTION_FORWARD }

GTK_PAN_DIRECTION_LEFT == "left"
GTK_PAN_DIRECTION_RIGHT == "right"
GTK_PAN_DIRECTION_UP == "up"
GTK_PAN_DIRECTION_DOWN == "down"

GTK_ORIENTATION_HORIZONTAL == "horizontal"
GTK_ORIENTATION_VERTICAL == "vertical"
Orientations == { GTK_ORIENTATION_HORIZONTAL, GTK_ORIENTATION_VERTICAL }

\* Minimum size that a visible child widget requests, in either orientation.
MinSize(w) == IF w = 1 THEN 0 ELSE 1

\* Natural size, along the orientation, that a visible child widget requests.
NatSize(w) == IF w = 2 THEN 2 ELSE 1

\* ------------------------------------------------------------------- state
VARIABLES
  children,            \* priv->children: sequence of child infos
  child_info,          \* per child: name, allow_visible
  widget_visible,      \* gtk_widget_get_visible of each child widget
  child_visible,       \* gtk_widget_get_child_visible of each child widget
  visible_child,       \* priv->visible_child
  last_visible_child,  \* priv->last_visible_child
  folded,              \* priv->folded
  homogeneous,         \* priv->homogeneous[fold][orientation]
  orientation,         \* priv->orientation
  transition_type,     \* priv->transition_type
  mode_transition,     \* priv->mode_transition
  child_transition,    \* priv->child_transition
  toolkit,             \* state of the leaflet widget kept by the toolkit
  swipe_tracker,       \* what the HdySwipeTracker was told and where it is
  crashed,             \* the process aborted
  running_notified,    \* the last step notified child-transition-running
  last_call,           \* the last operation, its arguments and its result
  history              \* values remembered from the start of the gesture

vars ==
  << children, child_info, widget_visible, child_visible, visible_child,
     last_visible_child, folded, homogeneous, orientation, transition_type,
     mode_transition, child_transition, toolkit, swipe_tracker, crashed,
     running_notified, last_call, history >>

\* The current state as one record, the form the handlers work on; signals
\* collects the notifications and signals the handler emits.
State ==
  [ children |-> children, child_info |-> child_info,
    widget_visible |-> widget_visible, child_visible |-> child_visible,
    visible_child |-> visible_child, last_visible_child |-> last_visible_child,
    folded |-> folded, homogeneous |-> homogeneous, orientation |-> orientation,
    transition_type |-> transition_type, mode_transition |-> mode_transition,
    child_transition |-> child_transition, toolkit |-> toolkit,
    swipe_tracker |-> swipe_tracker, signals |-> {}, crashed |-> crashed ]

\* The next state is the record r.
Commit(r) ==
  /\ children' = r.children
  /\ child_info' = r.child_info
  /\ widget_visible' = r.widget_visible
  /\ child_visible' = r.child_visible
  /\ visible_child' = r.visible_child
  /\ last_visible_child' = r.last_visible_child
  /\ folded' = r.folded
  /\ homogeneous' = r.homogeneous
  /\ orientation' = r.orientation
  /\ transition_type' = r.transition_type
  /\ mode_transition' = r.mode_transition
  /\ child_transition' = r.child_transition
  /\ toolkit' = r.toolkit
  /\ swipe_tracker' = r.swipe_tracker
  /\ crashed' = r.crashed
  /\ running_notified' = ("child-transition-running" \in r.signals)

\* The record of a call: the operation, its widget, direction and size
\* arguments, the value it returned and the signals it emitted.
Call(op, w, dir, size, ret, emitted) ==
  [op |-> op, w |-> w, dir |-> dir, size |-> size, ret |-> ret,
   signals |-> emitted]
NoCall == Call("none", NULL, "none", 0, FALSE, {})
\* The record left by the operations whose return nothing refers to
Other == Call("other", NULL, "none", 0, FALSE, {})

\* What is being followed.
\* A swipe: its phase ("gesture" between begin_swipe and end_swipe,
\* "animating" until the tick callback is gone, "done" right after), the
\* visible child before begin_swipe (origin), whether it was direct, whether
\* begin_swipe selected a child, and whether it was cancelled.
\* A switch requested while a child transition was animating: its phase
\* ("requested" until the tick callback is gone, "settled" right after), the
\* child asked for (requested), and whether the running transition was a
\* cancelled swipe.
\* Nothing is followed (phase "none") after a further switch request or swipe,
\* a change of a can-swipe property, or a change of the visible child by the
\* container (a child added, shown, hidden or no longer allowed).
NoHistory ==
  [phase |-> "none", origin |-> NULL, requested |-> NULL, direct |-> FALSE,
   selected |-> FALSE, cancelled |-> FALSE]

\* hdy_leaflet_init, and the defaults of a new widget
Init ==
  /\ children = << >>
  /\ child_info = [w \in Widgets |-> [name |-> NoName, allow_visible |-> TRUE]]
  /\ widget_visible = [w \in Widgets |-> FALSE]
  /\ child_visible = [w \in Widgets |-> FALSE]
  /\ visible_child = NULL
  /\ last_visible_child = NULL
  /\ folded = FALSE
  /\ homogeneous = [folded |-> [o \in Orientations |-> TRUE],
                    unfolded |-> [o \in Orientations |-> FALSE]]
  /\ orientation = GTK_ORIENTATION_HORIZONTAL
  /\ transition_type = HDY_LEAFLET_TRANSITION_TYPE_NONE
  /\ mode_transition =
       [ duration |-> DefaultModeDuration, current_pos |-> Steps,
         source_pos |-> 0, target_pos |-> Steps, tick_id |-> FALSE,
         tracker |-> Steps ]
  /\ child_transition =
       [ duration |-> DefaultChildDuration, progress |-> 0,
         start_progress |-> 0, end_progress |-> 0,
         is_gesture_active |-> FALSE, is_cancelled |-> FALSE,
         tick_id |-> FALSE, tracker |-> Steps, first_frame_skipped |-> FALSE,
         interpolate_size |-> FALSE, can_swipe_back |-> FALSE,
         can_swipe_forward |-> FALSE,
         active_type |-> HDY_LEAFLET_TRANSITION_TYPE_NONE,
         active_direction |-> GTK_PAN_DIRECTION_LEFT ]
  /\ toolkit \in
       { [visible |-> FALSE, realized |-> FALSE, mapped |-> FALSE,
          enable_animations |-> TRUE, is_rtl |-> rtl] : rtl \in BOOLEAN }
  /\ swipe_tracker = [swiping |-> FALSE, points |-> {0}, progress |-> 0]
  /\ crashed = FALSE
  /\ running_notified = FALSE
  /\ last_call = NoCall
  /\ history = NoHistory

\* ----------------------------------------------------------------- helpers
Range(seq) == { seq[i] : i \in 1..Len(seq) }

\* g_list_index: position of w in the children list, 0 when absent
IndexOf(s, w) ==
  IF w \in Range(s.children)
    THEN CHOOSE i \in 1..Len(s.children) : s.children[i] = w
    ELSE 0

Notify(s, name) == [s EXCEPT !.signals = @ \cup {name}]

Crash(s) == [s EXCEPT !.crashed = TRUE]

\* gtk_widget_set_child_visible
SetChildVisible(s, w, v) == [s EXCEPT !.child_visible[w] = v]

GTK_PROGRESS_STATE_AFTER(tracker) == tracker = Steps

\* --------------------------------------------------- child transition core

\* hdy_lerp (a, b, t) = a + (b - a) * (1 - t), with t = tracker / Steps
hdy_lerp(a, b, t) == a + ((b - a) * (Steps - t)) \div Steps

is_direction_dependent_child_transition(type) ==
  type \in { HDY_LEAFLET_TRANSITION_TYPE_SLIDE, HDY_LEAFLET_TRANSITION_TYPE_OVER,
             HDY_LEAFLET_TRANSITION_TYPE_UNDER }

get_pan_direction(s, new_child_first) ==
  IF s.orientation = GTK_ORIENTATION_HORIZONTAL
    THEN IF s.toolkit.is_rtl
           THEN (IF new_child_first THEN GTK_PAN_DIRECTION_LEFT
                                    ELSE GTK_PAN_DIRECTION_RIGHT)
           ELSE (IF new_child_first THEN GTK_PAN_DIRECTION_RIGHT
                                    ELSE GTK_PAN_DIRECTION_LEFT)
    ELSE (IF new_child_first THEN GTK_PAN_DIRECTION_DOWN
                             ELSE GTK_PAN_DIRECTION_UP)

\* The tail of hdy_leaflet_child_progress_updated: what it does once the
\* transition is over (no gesture, tracker finished).
\* hdy_leaflet_child_progress_updated that never ends a transition
hdy_leaflet_child_progress_updated_Idle(s) == s

hdy_leaflet_child_progress_updated(s) ==
  IF s.crashed THEN s
  ELSE IF ~ s.child_transition.is_gesture_active
          /\ GTK_PROGRESS_STATE_AFTER(s.child_transition.tracker)
    THEN IF s.child_transition.is_cancelled
           THEN IF s.last_visible_child # NULL
                  THEN IF s.folded /\ s.visible_child = NULL
                         THEN Crash(s)
                         ELSE LET s1 == IF s.folded
                                          THEN SetChildVisible(
                                                 SetChildVisible(s, s.last_visible_child, TRUE),
                                                 s.visible_child, FALSE)
                                          ELSE s
                              IN Notify([s1 EXCEPT !.visible_child = s.last_visible_child,
                                                   !.last_visible_child = NULL],
                                        "visible-child")
                  ELSE Notify(s, "visible-child")
           ELSE IF s.last_visible_child # NULL
                  THEN LET s1 == IF s.folded
                                   THEN SetChildVisible(s, s.last_visible_child, FALSE)
                                   ELSE s
                       IN [s1 EXCEPT !.last_visible_child = NULL]
                  ELSE s
    ELSE s

hdy_leaflet_schedule_child_ticks(s) ==
  IF ~ s.child_transition.tick_id
    THEN LET s1 == [s EXCEPT !.child_transition.tick_id = TRUE]
         IN IF ~ s.child_transition.is_gesture_active
              THEN Notify(s1, "child-transition-running")
              ELSE s1
    ELSE s

\* hdy_leaflet_unschedule_child_ticks without its notification
hdy_leaflet_unschedule_child_ticks_Silent(s) ==
  [s EXCEPT !.child_transition.tick_id = FALSE]

hdy_leaflet_unschedule_child_ticks(s) ==
  IF s.child_transition.tick_id
    THEN Notify([s EXCEPT !.child_transition.tick_id = FALSE],
                "child-transition-running")
    ELSE s

hdy_leaflet_stop_child_transition(s) ==
  LET s1 == hdy_leaflet_unschedule_child_ticks(s)
      s2 == [s1 EXCEPT !.child_transition.active_type = HDY_LEAFLET_TRANSITION_TYPE_NONE,
                       !.child_transition.tracker = Steps]
  IN IF s2.last_visible_child # NULL
       THEN [SetChildVisible(s2, s2.last_visible_child, FALSE)
               EXCEPT !.last_visible_child = NULL]
       ELSE s2

hdy_leaflet_start_child_transition(s, type, duration, direction) ==
  LET s1 ==
        IF /\ s.toolkit.mapped
           /\ (s.toolkit.enable_animations \/ s.child_transition.is_gesture_active)
           /\ type # HDY_LEAFLET_TRANSITION_TYPE_NONE
           /\ duration # 0
           /\ s.last_visible_child # NULL
           /\ ~ s.mode_transition.tick_id
          THEN LET a == [s EXCEPT !.child_transition.active_type = type,
                                  !.child_transition.active_direction = direction,
                                  !.child_transition.first_frame_skipped = FALSE,
                                  !.child_transition.start_progress = 0,
                                  !.child_transition.end_progress = Steps,
                                  !.child_transition.progress = 0,
                                  !.child_transition.is_cancelled = FALSE]
               IN IF ~ a.child_transition.is_gesture_active
                    THEN [hdy_leaflet_schedule_child_ticks(a)
                            EXCEPT !.child_transition.tracker = 0]
                    ELSE a
          ELSE [hdy_leaflet_unschedule_child_ticks(s)
                  EXCEPT !.child_transition.active_type = HDY_LEAFLET_TRANSITION_TYPE_NONE,
                         !.child_transition.tracker = Steps]
  IN hdy_leaflet_child_progress_updated(s1)

\* The first child whose widget is visible, NULL when there is none
FirstVisibleChild(s) ==
  LET vis == { i \in 1..Len(s.children) : s.widget_visible[s.children[i]] }
  IN IF vis = {} THEN NULL
     ELSE s.children[CHOOSE i \in vis : \A j \in vis : i <= j]

set_visible_child_info(s, new_visible_child, type, duration, emit_switch_child) ==
  LET new == IF new_visible_child = NULL THEN FirstVisibleChild(s)
                                         ELSE new_visible_child
  IN
  IF s.crashed \/ new = s.visible_child THEN s
  ELSE
    LET s1 == [(IF s.last_visible_child # NULL
                  THEN SetChildVisible(s, s.last_visible_child, FALSE)
                  ELSE s)
                 EXCEPT !.last_visible_child = NULL]
        s2 == IF s1.visible_child # NULL
                THEN IF s1.toolkit.visible
                       THEN [s1 EXCEPT !.last_visible_child = s1.visible_child]
                       ELSE SetChildVisible(s1, s1.visible_child, FALSE)
                ELSE s1
        s3 == [(IF new # NULL THEN SetChildVisible(s2, new, TRUE) ELSE s2)
                 EXCEPT !.visible_child = new]
        dependent == is_direction_dependent_child_transition(type)
        no_pair == new = NULL \/ s3.last_visible_child = NULL
        type2 == IF no_pair /\ dependent
                   THEN HDY_LEAFLET_TRANSITION_TYPE_NONE ELSE type
        new_first == /\ IndexOf(s3, new) # 0
                     /\ \/ IndexOf(s3, s3.last_visible_child) = 0
                        \/ IndexOf(s3, new) < IndexOf(s3, s3.last_visible_child)
        direction == IF ~ no_pair /\ dependent
                       THEN get_pan_direction(s3, new_first)
                       ELSE GTK_PAN_DIRECTION_LEFT
        s4 == IF s3.folded
                THEN hdy_leaflet_start_child_transition(s3, type2, duration, direction)
                ELSE s3
        s5 == IF emit_switch_child /\ ~ s4.crashed
                THEN IF new = NULL THEN Crash(s4) ELSE Notify(s4, "switch-child")
                ELSE s4
    IN IF s5.crashed THEN s5 ELSE Notify(s5, "visible-child")

find_child_info_for_name(s, name) ==
  LET hit == { i \in 1..Len(s.children) : s.child_info[s.children[i]].name = name }
  IN IF hit = {} THEN NULL
     ELSE s.children[CHOOSE i \in hit : \A j \in hit : i <= j]

\* ---------------------------------------------------------- mode transition

hdy_leaflet_set_position(s, pos) ==
  LET s1 == [s EXCEPT !.mode_transition.current_pos = pos]
      new_visible == pos # 0 \/ s1.mode_transition.target_pos # 0
  IN IF s1.visible_child # NULL /\ s1.child_visible[s1.visible_child] # new_visible
       THEN SetChildVisible(s1, s1.visible_child, new_visible)
       ELSE s1

\* hdy_leaflet_start_mode_transition that leaves the position alone when it
\* does not animate
hdy_leaflet_start_mode_transition_NoJump(s, target) ==
  IF s.mode_transition.target_pos = target THEN s
  ELSE
    LET s1 == hdy_leaflet_stop_child_transition(
                [s EXCEPT !.mode_transition.target_pos = target])
    IN IF /\ s1.toolkit.mapped
          /\ s1.mode_transition.duration # 0
          /\ s1.transition_type # HDY_LEAFLET_TRANSITION_TYPE_NONE
          /\ s1.toolkit.enable_animations
         THEN [s1 EXCEPT !.mode_transition.source_pos = s1.mode_transition.current_pos,
                         !.mode_transition.tick_id = TRUE,
                         !.mode_transition.tracker = 0]
         ELSE s1

hdy_leaflet_start_mode_transition(s, target) ==
  IF s.mode_transition.target_pos = target THEN s
  ELSE
    LET s1 == hdy_leaflet_stop_child_transition(
                [s EXCEPT !.mode_transition.target_pos = target])
    IN IF /\ s1.toolkit.mapped
          /\ s1.mode_transition.duration # 0
          /\ s1.transition_type # HDY_LEAFLET_TRANSITION_TYPE_NONE
          /\ s1.toolkit.enable_animations
         THEN [s1 EXCEPT !.mode_transition.source_pos = s1.mode_transition.current_pos,
                         !.mode_transition.tick_id = TRUE,
                         !.mode_transition.tracker = 0]
         ELSE hdy_leaflet_set_position(s1, target)

\* hdy_leaflet_set_folded that starts no mode transition
hdy_leaflet_set_folded_NoTransition(s, f) ==
  IF s.folded = f THEN s ELSE Notify([s EXCEPT !.folded = f], "folded")

hdy_leaflet_set_folded(s, f) ==
  IF s.folded = f THEN s
  ELSE Notify(hdy_leaflet_start_mode_transition(
                [s EXCEPT !.folded = f], IF f THEN 0 ELSE Steps),
              "folded")

\* hdy_leaflet_mode_transition_cb that advances the tracker and leaves the
\* position alone
hdy_leaflet_mode_transition_cb_Still(s, advance) ==
  LET t == s.mode_transition.tracker + advance
  IN [s EXCEPT !.mode_transition.tracker = t,
               !.mode_transition.tick_id = ~ GTK_PROGRESS_STATE_AFTER(t)]

\* hdy_leaflet_mode_transition_cb; advance is the progress the frame clock
\* adds to the tracker
hdy_leaflet_mode_transition_cb(s, advance) ==
  LET t == s.mode_transition.tracker + advance
      m == s.mode_transition
      s1 == [s EXCEPT !.mode_transition.tracker = t]
      s2 == hdy_leaflet_set_position(
              s1, m.source_pos + ((m.target_pos - m.source_pos) * t) \div Steps)
  IN IF GTK_PROGRESS_STATE_AFTER(t)
       THEN [s2 EXCEPT !.mode_transition.tick_id = FALSE]
       ELSE s2

\* ------------------------------------------------------------ size allocate

\* gtk_widget_get_preferred_size of a child: its natural size along the
\* orientation; the toolkit reports 0 for a widget that is not visible.
ChildNat(s, w) == IF s.widget_visible[w] THEN NatSize(w) ELSE 0

RECURSIVE SumSizes(_, _)
SumSizes(size, seq) ==
  IF seq = << >> THEN 0 ELSE size[Head(seq)] + SumSizes(size, Tail(seq))

RECURSIVE MaxSizes(_, _)
MaxSizes(size, seq) ==
  IF seq = << >> THEN 0
  ELSE LET m == MaxSizes(size, Tail(seq))
       IN IF size[Head(seq)] > m THEN size[Head(seq)] ELSE m

\* gtk_widget_get_preferred_width / _height of a child: its minimum size; the
\* toolkit reports 0 for a widget that is not visible.
ChildMin(s, w) == IF s.widget_visible[w] THEN MinSize(w) ELSE 0

\* The variant of get_preferred_size that always interpolates the minimum
get_preferred_size_Interpolated(same_orientation, homogeneous_folded, homogeneous_unfolded, visible_children, visible_child_progress, sum_nat, max_min, max_nat, visible_min, last_visible_min) ==
  [ minimum |-> hdy_lerp(visible_min, last_visible_min, visible_child_progress),
    natural |-> IF same_orientation
                  THEN IF homogeneous_unfolded THEN max_nat * visible_children
                                               ELSE sum_nat
                  ELSE max_nat ]

get_preferred_size(same_orientation, homogeneous_folded, homogeneous_unfolded, visible_children, visible_child_progress, sum_nat, max_min, max_nat, visible_min, last_visible_min) ==
  IF same_orientation
    THEN [ minimum |-> IF homogeneous_folded
                         THEN max_min
                         ELSE hdy_lerp(visible_min, last_visible_min,
                                       visible_child_progress),
           natural |-> IF homogeneous_unfolded THEN max_nat * visible_children
                                               ELSE sum_nat ]
    ELSE [ minimum |-> IF homogeneous_folded
                         THEN max_min
                         ELSE hdy_lerp(visible_min, last_visible_min,
                                       visible_child_progress),
           natural |-> max_nat ]

\* hdy_leaflet_measure in orientation o; the children request the same sizes
\* for every for_size.
hdy_leaflet_measure(s, o) ==
  LET shown == SelectSeq(s.children, LAMBDA w : s.widget_visible[w])
      min == [w \in Widgets |-> ChildMin(s, w)]
      nat == [w \in Widgets |-> ChildNat(s, w)]
      visible_min == IF s.visible_child # NULL
                       THEN ChildMin(s, s.visible_child) ELSE 0
      last_visible_min == IF s.last_visible_child # NULL
                            THEN ChildMin(s, s.last_visible_child) ELSE 0
      visible_child_progress == IF s.child_transition.interpolate_size
                                  THEN s.child_transition.progress
                                  ELSE Steps
  IN get_preferred_size(s.orientation = o,
                        s.homogeneous.folded[o], s.homogeneous.unfolded[o],
                        Len(shown), visible_child_progress,
                        SumSizes(nat, shown), MaxSizes(min, shown),
                        MaxSizes(nat, shown), visible_min, last_visible_min)

Reverse(seq) == [i \in 1..Len(seq) |-> seq[Len(seq) + 1 - i]]

get_directed_children(s) ==
  IF s.orientation = GTK_ORIENTATION_HORIZONTAL /\ s.toolkit.is_rtl
    THEN Reverse(s.children) ELSE s.children

\* What a build may produce for (gint) NaN, 0 / 0 being the quotient when no
\* other child has a size: the most negative gint, which is here any value
\* below every coordinate of the allocation, or 0.
NaNCasts == {0 - 4 * (MaxAlloc + MaxChildren), 0}

FoldDecision_NotStrict(s, size) ==
  LET nat == [w \in Widgets |-> ChildNat(s, w)]
      sum == SumSizes(nat, s.children)
      nat_box_size == IF s.homogeneous.unfolded[s.orientation]
                        THEN MaxSizes(nat, s.children) * Len(s.children)
                        ELSE sum
  IN size <= nat_box_size

\* The fold decision of hdy_leaflet_size_allocate
FoldDecision(s, size) ==
  LET nat == [w \in Widgets |-> ChildNat(s, w)]
      sum == SumSizes(nat, s.children)
      nat_box_size == IF s.homogeneous.unfolded[s.orientation]
                        THEN MaxSizes(nat, s.children) * Len(s.children)
                        ELSE sum
  IN size < nat_box_size

\* hdy_leaflet_size_allocate_folded: the state, and child_info->visible of
\* each child (crashed when it dereferences a NULL visible child)
hdy_leaflet_size_allocate_folded(s, size, nan) ==
  LET none == [w \in Widgets |-> FALSE]
      D == get_directed_children(s)
      vc == s.visible_child
  IN
  IF vc = NULL THEN [st |-> Crash(s), visible |-> none]
  ELSE
    LET s1 == [s EXCEPT !.child_visible =
                 [w \in Widgets |->
                    IF w \in Range(D) /\ w # vc /\ w # s.last_visible_child
                      THEN FALSE ELSE @[w]]]
    IN
    IF ~ s1.widget_visible[vc]
      THEN [st |-> SetChildVisible(s1, vc, FALSE), visible |-> none]
    ELSE
      LET s2 == SetChildVisible(s1, vc, TRUE)
          pos == s2.mode_transition.current_pos
          type == IF pos <= 0 THEN HDY_LEAFLET_TRANSITION_TYPE_NONE
                              ELSE s2.transition_type
      IN
      IF type = HDY_LEAFLET_TRANSITION_TYPE_NONE
        THEN [st |-> s2,
              visible |-> [w \in Widgets |->
                             w \in Range(D) /\ (w = vc \/ w = s2.last_visible_child)]]
        ELSE
          LET nat == [w \in Widgets |-> ChildNat(s2, w)]
              scaled == (size * (Steps - pos)) \div Steps
              inner == IF nat[vc] > scaled THEN nat[vc] ELSE scaled
              visible_size == IF size < inner THEN size ELSE inner
              box_homogeneous == s2.homogeneous.unfolded[s2.orientation]
              max_child_size == MaxSizes(nat, D)
              width == [w \in Widgets |->
                          IF box_homogeneous THEN max_child_size ELSE nat[w]]
              k == CHOOSE i \in 1..Len(D) : D[i] = vc
              start_size == SumSizes(width, SubSeq(D, 1, k - 1))
              end_size == SumSizes(width, SubSeq(D, k + 1, Len(D)))
              remaining_size == size - visible_size
              remaining_start_size ==
                IF start_size + end_size = 0 THEN nan
                ELSE (remaining_size * start_size) \div (start_size + end_size)
              horizontal == s2.orientation = GTK_ORIENTATION_HORIZONTAL
              rtl == s2.toolkit.is_rtl
              under_start ==
                IF horizontal
                  THEN \/ type = HDY_LEAFLET_TRANSITION_TYPE_OVER /\ ~ rtl
                       \/ type = HDY_LEAFLET_TRANSITION_TYPE_UNDER /\ rtl
                  ELSE type = HDY_LEAFLET_TRANSITION_TYPE_OVER
              under_end ==
                \/ type = HDY_LEAFLET_TRANSITION_TYPE_UNDER /\ ~ rtl
                \/ type = HDY_LEAFLET_TRANSITION_TYPE_OVER /\ rtl
              start_x == IF under_start THEN 0
                         ELSE remaining_start_size - start_size
              end_x == IF horizontal /\ under_end THEN size - end_size
                       ELSE remaining_start_size + visible_size
              x_of(i) == start_x + SumSizes(width, SubSeq(D, 1, i - 1))
          IN [st |-> s2,
              visible |->
                [w \in Widgets |->
                   IF w \notin Range(D) THEN FALSE
                   ELSE LET i == CHOOSE j \in 1..Len(D) : D[j] = w
                        IN IF i = k THEN TRUE
                           ELSE IF i < k THEN x_of(i) + width[w] > 0
                           ELSE end_x < size]]

hdy_leaflet_size_allocate_unfolded_FirstOnly(s, size) ==
  LET none == [w \in Widgets |-> FALSE]
      D == get_directed_children(s)
      visible == [w \in Widgets |-> D # <<>> /\ w = D[1] /\ s.widget_visible[w]]
      n_visible_children == Cardinality({w \in Widgets : visible[w]})
  IN IF (s.homogeneous.unfolded[s.orientation] /\ n_visible_children = 0)
          \/ s.visible_child = NULL
       THEN [st |-> Crash(s), visible |-> none]
       ELSE [st |-> s, visible |-> visible]

\* hdy_leaflet_size_allocate_unfolded
hdy_leaflet_size_allocate_unfolded(s, size) ==
  LET none == [w \in Widgets |-> FALSE]
      D == get_directed_children(s)
      visible == [w \in Widgets |-> w \in Range(D) /\ s.widget_visible[w]]
      n_visible_children == Cardinality({w \in Widgets : visible[w]})
  IN IF (s.homogeneous.unfolded[s.orientation] /\ n_visible_children = 0) \/ s.visible_child = NULL
       THEN [st |-> Crash(s), visible |-> none]
       ELSE [st |-> s, visible |-> visible]

\* hdy_leaflet_size_allocate (widget, allocation), size being the allocated
\* size along the orientation
hdy_leaflet_size_allocate(s, size, nan) ==
  LET f == FoldDecision(s, size)
      s1 == hdy_leaflet_set_folded(s, f)
      r == IF f THEN hdy_leaflet_size_allocate_folded(s1, size, nan)
                ELSE hdy_leaflet_size_allocate_unfolded(s1, size)
  IN IF r.st.crashed THEN r.st
     ELSE
       \* "Apply visibility and allocation": gtk_widget_show of a child that
       \* is neither the visible child nor hidden while being it leaves the
       \* visibility callback without effect.
       [r.st EXCEPT
          !.child_visible = [w \in Widgets |->
                               IF w \in Range(s.children) THEN r.visible[w] ELSE @[w]],
          !.widget_visible = [w \in Widgets |->
                                IF r.visible[w] /\ r.st.toolkit.realized
                                  THEN TRUE ELSE @[w]]]

\* -------------------------------------------------- navigation and swiping

\* Result of find_swipeable_child when it dereferences a NULL list node
SEGV == 0 - 1

\* find_swipeable_child: walks from the visible child in the direction until
\* a child with allow_visible; child keeps the last child looked at when the
\* walk runs off the list.
find_swipeable_child(s, direction) ==
  LET k == IndexOf(s, s.visible_child)
      n == Len(s.children)
      side == IF direction = HDY_NAVIGATION_DIRECTION_BACK
                THEN 1..(k - 1) ELSE (k + 1)..n
      allowed == { i \in side : s.child_info[s.children[i]].allow_visible }
  IN IF k = 0 THEN SEGV
     ELSE IF allowed # {}
       THEN s.children[IF direction = HDY_NAVIGATION_DIRECTION_BACK
                         THEN CHOOSE i \in allowed : \A j \in allowed : j <= i
                         ELSE CHOOSE i \in allowed : \A j \in allowed : i <= j]
     ELSE IF side # {}
       THEN s.children[IF direction = HDY_NAVIGATION_DIRECTION_BACK THEN 1 ELSE n]
     ELSE NULL

can_swipe_in_direction(s, direction) ==
  IF direction = HDY_NAVIGATION_DIRECTION_BACK
    THEN s.child_transition.can_swipe_back
    ELSE s.child_transition.can_swipe_forward

\* hdy_leaflet_navigate without the can-swipe test of its first lines
hdy_leaflet_navigate_Unchecked(s, direction) ==
  LET child == find_swipeable_child(s, direction)
  IN IF child = SEGV THEN [st |-> Crash(s), ret |-> FALSE]
     ELSE IF child = NULL THEN [st |-> s, ret |-> FALSE]
     ELSE [st |-> set_visible_child_info(s, child, s.transition_type,
                                         s.child_transition.duration, TRUE),
           ret |-> TRUE]

\* hdy_leaflet_navigate: the state and the value returned
hdy_leaflet_navigate(s, direction) ==
  IF ~ can_swipe_in_direction(s, direction) THEN [st |-> s, ret |-> FALSE]
  ELSE LET child == find_swipeable_child(s, direction)
       IN IF child = SEGV THEN [st |-> Crash(s), ret |-> FALSE]
          ELSE IF child = NULL THEN [st |-> s, ret |-> FALSE]
          ELSE [st |-> set_visible_child_info(s, child, s.transition_type,
                                              s.child_transition.duration, TRUE),
                ret |-> TRUE]

get_current_progress(s) ==
  IF ~ s.child_transition.is_gesture_active
     /\ GTK_PROGRESS_STATE_AFTER(s.child_transition.tracker)
    THEN 0
    ELSE LET l == IndexOf(s, s.last_visible_child)
             v == IndexOf(s, s.visible_child)
             new_first == l # 0 /\ (v = 0 \/ l < v)
         IN s.child_transition.progress * (IF new_first THEN 1 ELSE 0 - 1)

\* hdy_swipe_tracker_confirm_swipe: the snap points and the starting progress
\* the tracker is given
confirm_swipe(s, points, progress) ==
  [s EXCEPT !.swipe_tracker = [swiping |-> TRUE, points |-> points,
                               progress |-> progress]]

hdy_leaflet_begin_swipe(s, direction, direct) ==
  IF s.child_transition.tick_id
    THEN LET dir == s.child_transition.active_direction
             rtl == s.toolkit.is_rtl
             forward == \/ dir = GTK_PAN_DIRECTION_UP
                        \/ dir = GTK_PAN_DIRECTION_LEFT /\ ~ rtl
                        \/ dir = GTK_PAN_DIRECTION_RIGHT /\ rtl
             points == IF forward THEN {0, Steps} ELSE {0 - Steps, 0}
             progress == get_current_progress(s)
         IN confirm_swipe([s EXCEPT !.child_transition.tick_id = FALSE,
                                    !.child_transition.is_gesture_active = TRUE,
                                    !.child_transition.is_cancelled = FALSE],
                          points, progress)
    ELSE LET child == IF (can_swipe_in_direction(s, direction) \/ ~ direct) /\ s.folded
                        THEN find_swipeable_child(s, direction) ELSE NULL
         IN IF child = SEGV THEN Crash(s)
            ELSE IF child # NULL
              THEN LET s1 == set_visible_child_info(
                               [s EXCEPT !.child_transition.is_gesture_active = TRUE],
                               child, s.transition_type, s.child_transition.duration,
                               FALSE)
                   IN confirm_swipe(Notify(s1, "child-transition-running"),
                                    IF direction = HDY_NAVIGATION_DIRECTION_BACK
                                      THEN {0 - Steps, 0} ELSE {0, Steps},
                                    0)
              ELSE confirm_swipe(s, {0}, 0)

Abs(x) == IF x < 0 THEN 0 - x ELSE x

hdy_leaflet_update_swipe(s, value) ==
  hdy_leaflet_child_progress_updated(
    [s EXCEPT !.child_transition.progress = Abs(value)])

hdy_leaflet_end_swipe(s, duration, to) ==
  IF ~ s.child_transition.is_gesture_active THEN s
  ELSE
    LET s1 == [s EXCEPT !.child_transition.start_progress = s.child_transition.progress,
                        !.child_transition.end_progress = Abs(to),
                        !.child_transition.is_cancelled = (to = 0),
                        !.child_transition.first_frame_skipped = TRUE]
        s2 == hdy_leaflet_schedule_child_ticks(s1)
        s3 == IF /\ s2.toolkit.enable_animations
                 /\ duration # 0
                 /\ s2.transition_type # HDY_LEAFLET_TRANSITION_TYPE_NONE
                THEN [s2 EXCEPT !.child_transition.tracker = 0]
                ELSE [s2 EXCEPT !.child_transition.progress = s2.child_transition.end_progress,
                                !.child_transition.tracker = Steps]
    IN hdy_leaflet_child_progress_updated(
         [s3 EXCEPT !.child_transition.is_gesture_active = FALSE])

\* hdy_leaflet_child_transition_cb; advance is the progress the frame clock
\* adds to a running tracker
hdy_leaflet_child_transition_cb(s, advance) ==
  LET c == s.child_transition
      t == IF c.tracker + advance > Steps THEN Steps ELSE c.tracker + advance
      s1 == IF c.first_frame_skipped
              THEN [s EXCEPT !.child_transition.tracker = t,
                             !.child_transition.progress =
                               hdy_lerp(c.end_progress, c.start_progress, t)]
              ELSE [s EXCEPT !.child_transition.first_frame_skipped = TRUE]
      s2 == IF ~ s1.toolkit.mapped
              THEN [s1 EXCEPT !.child_transition.tracker = Steps]
              ELSE s1
      s3 == hdy_leaflet_child_progress_updated(s2)
  IN IF ~ s3.crashed /\ GTK_PROGRESS_STATE_AFTER(s3.child_transition.tracker)
       THEN Notify([s3 EXCEPT !.child_transition.tick_id = FALSE],
                   "child-transition-running")
       ELSE s3

\* ------------------------------------------------------ container handlers

hdy_leaflet_child_visibility_notify_cb(s, w) ==
  IF s.visible_child = NULL /\ s.widget_visible[w]
    THEN set_visible_child_info(s, w, s.transition_type,
                                s.child_transition.duration, TRUE)
  ELSE IF s.visible_child = w /\ ~ s.widget_visible[w]
    THEN set_visible_child_info(s, NULL, s.transition_type,
                                s.child_transition.duration, TRUE)
  ELSE s

\* hdy_leaflet_add that puts the new child at the head of the list
hdy_leaflet_add_Prepend(s, w, vis) ==
  LET s1 == [s EXCEPT !.child_visible[w] = FALSE,
                      !.widget_visible[w] = vis,
                      !.child_info[w] = [name |-> NoName, allow_visible |-> TRUE],
                      !.children = <<w>> \o @]
  IN IF s1.visible_child = NULL /\ vis
       THEN set_visible_child_info(s1, w, s1.transition_type,
                                   s1.child_transition.duration, FALSE)
       ELSE s1

\* hdy_leaflet_add of a widget whose visible flag is vis
hdy_leaflet_add(s, w, vis) ==
  LET s1 == [s EXCEPT !.child_visible[w] = FALSE,
                      !.widget_visible[w] = vis,
                      !.child_info[w] = [name |-> NoName, allow_visible |-> TRUE],
                      !.children = Append(@, w)]
  IN IF s1.visible_child = NULL /\ vis
       THEN set_visible_child_info(s1, w, s1.transition_type,
                                   s1.child_transition.duration, FALSE)
       ELSE s1

\* What a read of priv->visible_child->widget yields once the child info has
\* been freed: the widget it held, some other value, or a fault.
FreedReads == {"intact", "garbage", "fault"}

\* hdy_leaflet_remove; the child info is freed before
\* hdy_leaflet_get_visible_child reads it, and freed is what the read yields
hdy_leaflet_remove(s, w, freed) ==
  IF w \notin Range(s.children) THEN s
  ELSE
    LET s1 == [s EXCEPT !.children = SelectSeq(@, LAMBDA x : x # w)]
    IN IF s1.visible_child # w THEN s1
       ELSE IF freed = "fault" THEN Crash(s1)
       ELSE IF freed = "garbage" THEN s1
       ELSE set_visible_child_info(s1, NULL, s1.transition_type,
                                   s1.child_transition.duration, TRUE)

\* hdy_leaflet_set_child_property, CHILD_PROP_ALLOW_VISIBLE
set_allow_visible(s, w, allow) ==
  LET s1 == [s EXCEPT !.child_info[w].allow_visible = allow]
  IN IF ~ allow /\ s1.visible_child = w
       THEN set_visible_child_info(s1, NULL, s1.transition_type,
                                   s1.child_transition.duration, TRUE)
       ELSE s1

\* hdy_leaflet_set_child_property, CHILD_PROP_NAME
set_name(s, w, name) ==
  LET s1 == [s EXCEPT !.child_info[w].name = name]
  IN IF s1.visible_child = w THEN Notify(s1, "visible-child-name") ELSE s1

hdy_leaflet_set_visible_child(s, w) ==
  set_visible_child_info(s, w, s.transition_type, s.child_transition.duration, TRUE)

hdy_leaflet_set_visible_child_name(s, name) ==
  set_visible_child_info(s, find_child_info_for_name(s, name), s.transition_type,
                         s.child_transition.duration, TRUE)

hdy_leaflet_get_child_transition_running(s) ==
  s.child_transition.tick_id \/ s.child_transition.is_gesture_active

hdy_leaflet_get_visible_child(s) == s.visible_child

\* The branch of hdy_leaflet_draw that ends in g_assert_not_reached
DrawAssertNotReached(s) ==
  /\ s.folded
  /\ s.visible_child # NULL
  /\ ~ (~ GTK_PROGRESS_STATE_AFTER(s.mode_transition.tracker) /\ s.folded)
  /\ \/ /\ s.child_transition.is_gesture_active
        /\ s.transition_type # HDY_LEAFLET_TRANSITION_TYPE_NONE
     \/ ~ GTK_PROGRESS_STATE_AFTER(s.child_transition.tracker)
  /\ s.child_transition.active_type = HDY_LEAFLET_TRANSITION_TYPE_NONE

hdy_leaflet_draw(s) == IF DrawAssertNotReached(s) THEN Crash(s) ELSE s

\* ----------------------------------------------------------------- actions

\* How an operation that is neither a switch request nor a part of a swipe
\* moves the record: drop tells whether it ends the following.
Bystander(r, drop) ==
  IF drop \/ history.phase \in {"none", "done", "settled"} THEN NoHistory
  ELSE IF r.child_transition.tick_id \/ history.phase = "gesture" THEN history
  ELSE [history EXCEPT
          !.phase = IF @ = "animating" THEN "done" ELSE "settled"]

\* The record after a request to make w the visible child
Requested(r, w) ==
  IF ~ child_transition.tick_id \/ GTK_PROGRESS_STATE_AFTER(child_transition.tracker)
    THEN NoHistory
  ELSE [NoHistory EXCEPT
          !.phase = IF r.child_transition.tick_id THEN "requested" ELSE "settled",
          !.requested = w,
          !.cancelled = child_transition.is_cancelled]

Add(vis) ==
  /\ ~ crashed
  /\ Len(children) < MaxChildren
  /\ LET w == CHOOSE x \in Widgets :
                 x \notin Range(children) /\ \A y \in Widgets \ Range(children) : x <= y
         r == hdy_leaflet_add(State, w, vis)
     IN /\ Commit(r)
        /\ last_call' = Other
        /\ history' = Bystander(r, r.visible_child # visible_child)

\* gtk_container_remove of a child
Remove(w) ==
  /\ ~ crashed
  /\ w \in Range(children)
  /\ \E freed \in FreedReads :
       LET r == hdy_leaflet_remove(State, w, freed)
       IN /\ Commit(r)
          /\ last_call' = Call("remove", w, "none", 0, FALSE, {})
          /\ history' = Bystander(r, TRUE)

\* gtk_widget_show / gtk_widget_hide of a child, and the notify::visible
\* callback that follows
SetChildWidgetVisible(w, vis) ==
  /\ ~ crashed
  /\ w \in Range(children)
  /\ widget_visible[w] # vis
  /\ LET r == hdy_leaflet_child_visibility_notify_cb(
                [State EXCEPT !.widget_visible[w] = vis], w)
     IN /\ Commit(r)
        /\ last_call' = Other
        /\ history' = Bystander(r, r.visible_child # visible_child)

SetAllowVisible(w, allow) ==
  /\ ~ crashed
  /\ w \in Range(children)
  /\ child_info[w].allow_visible # allow
  /\ LET r == set_allow_visible(State, w, allow)
     IN /\ Commit(r)
        /\ last_call' = Other
        /\ history' = Bystander(r, r.visible_child # visible_child)

SetName(w, name) ==
  /\ ~ crashed
  /\ w \in Range(children)
  /\ child_info[w].name # name
  /\ LET r == set_name(State, w, name)
     IN /\ Commit(r)
        /\ last_call' = Other
        /\ history' = Bystander(r, FALSE)

SetVisibleChild(w) ==
  /\ ~ crashed
  /\ w \in Range(children)
  /\ LET r == hdy_leaflet_set_visible_child(State, w)
     IN /\ Commit(r)
        /\ last_call' = Call("set_visible_child", w, "none", 0, FALSE, {})
        /\ history' = Requested(r, w)

\* set_visible_child_name with the name of the child w
SetVisibleChildName(w) ==
  /\ ~ crashed
  /\ w \in Range(children)
  /\ child_info[w].name # NoName
  /\ LET r == hdy_leaflet_set_visible_child_name(State, child_info[w].name)
     IN /\ Commit(r)
        /\ last_call' = Call("set_visible_child_name", w, "none", 0, FALSE, {})
        /\ history' = Requested(r, w)

Navigate(direction) ==
  /\ ~ crashed
  /\ LET r == hdy_leaflet_navigate(State, direction)
     IN /\ Commit(r.st)
        /\ last_call' = Call("navigate", NULL, direction, 0, r.ret, r.st.signals)
        /\ history' = Bystander(r.st, TRUE)

SizeAllocate(size) ==
  /\ ~ crashed
  /\ toolkit.visible
  /\ \E nan \in NaNCasts :
       LET r == hdy_leaflet_size_allocate(State, size, nan)
       IN /\ Commit(r)
          /\ last_call' = Call("size_allocate", NULL, "none", size, FALSE, {})
          /\ history' = Bystander(r, FALSE)

ChildTick ==
  /\ ~ crashed
  /\ toolkit.realized
  /\ child_transition.tick_id
  /\ \E advance \in 1..Steps :
       LET r == hdy_leaflet_child_transition_cb(State, advance)
       IN /\ Commit(r)
          /\ last_call' = Other
          /\ history' = Bystander(r, FALSE)

ModeTick ==
  /\ ~ crashed
  /\ toolkit.realized
  /\ mode_transition.tick_id
  /\ \E advance \in 1..(Steps - mode_transition.tracker) :
       LET r == hdy_leaflet_mode_transition_cb(State, advance)
       IN /\ Commit(r)
          /\ last_call' = Other
          /\ history' = Bystander(r, FALSE)

\* The swipe tracker recognises a gesture (direct), or a swipe group relays
\* one (not direct).
BeginSwipe(direction, direct) ==
  /\ ~ crashed
  /\ ~ swipe_tracker.swiping
  /\ direct => /\ toolkit.mapped
               /\ child_transition.can_swipe_back \/ child_transition.can_swipe_forward
  /\ LET r == hdy_leaflet_begin_swipe(State, direction, direct)
     IN /\ Commit(r)
        /\ last_call' = Call("begin_swipe", NULL, direction, 0, direct, {})
        /\ history' =
             [phase |-> "gesture", origin |-> visible_child, requested |-> NULL,
              direct |-> direct,
              selected |-> ~ child_transition.tick_id /\ r.visible_child # visible_child,
              cancelled |-> FALSE]

UpdateSwipe(value) ==
  /\ ~ crashed
  /\ swipe_tracker.swiping
  /\ \E lo \in swipe_tracker.points, hi \in swipe_tracker.points :
       lo <= value /\ value <= hi
  /\ LET r == hdy_leaflet_update_swipe(State, value)
     IN /\ Commit(r)
        /\ last_call' = Other
        /\ history' = IF history.phase = "gesture" THEN history ELSE NoHistory

EndSwipe(duration, to) ==
  /\ ~ crashed
  /\ swipe_tracker.swiping
  /\ to \in swipe_tracker.points
  /\ LET r0 == hdy_leaflet_end_swipe(State, duration, to)
         r == [r0 EXCEPT !.swipe_tracker.swiping = FALSE]
     IN /\ Commit(r)
        /\ last_call' = Other
        /\ history' =
             IF history.phase # "gesture" THEN NoHistory
             ELSE [history EXCEPT
                     !.phase = IF r.child_transition.tick_id THEN "animating"
                                                             ELSE "done",
                     !.cancelled = (to = 0)]

Draw ==
  /\ ~ crashed
  /\ toolkit.mapped
  /\ Commit(hdy_leaflet_draw(State))
  /\ last_call' = Other
  /\ history' = history

\* Property setters: each returns early when the value is the current one.
SetTransitionType(type) ==
  /\ ~ crashed
  /\ transition_type # type
  /\ LET r == Notify([State EXCEPT !.transition_type = type], "transition-type")
     IN /\ Commit(r)
        /\ last_call' = Other
        /\ history' = Bystander(r, FALSE)

SetChildTransitionDuration(duration) ==
  /\ ~ crashed
  /\ child_transition.duration # duration
  /\ LET r == Notify([State EXCEPT !.child_transition.duration = duration],
                     "child-transition-duration")
     IN /\ Commit(r)
        /\ last_call' = Other
        /\ history' = Bystander(r, FALSE)

SetModeTransitionDuration(duration) ==
  /\ ~ crashed
  /\ mode_transition.duration # duration
  /\ LET r == Notify([State EXCEPT !.mode_transition.duration = duration],
                     "mode-transition-duration")
     IN /\ Commit(r)
        /\ last_call' = Other
        /\ history' = Bystander(r, FALSE)

SetCanSwipeBack(can) ==
  /\ ~ crashed
  /\ child_transition.can_swipe_back # can
  /\ LET r == Notify([State EXCEPT !.child_transition.can_swipe_back = can],
                     "can-swipe-back")
     IN /\ Commit(r)
        /\ last_call' = Other
        /\ history' = Bystander(r, TRUE)

SetCanSwipeForward(can) ==
  /\ ~ crashed
  /\ child_transition.can_swipe_forward # can
  /\ LET r == Notify([State EXCEPT !.child_transition.can_swipe_forward = can],
                     "can-swipe-forward")
     IN /\ Commit(r)
        /\ last_call' = Other
        /\ history' = Bystander(r, TRUE)

SetHomogeneous(fold, o, h) ==
  /\ ~ crashed
  /\ homogeneous[fold][o] # h
  /\ LET r == Notify([State EXCEPT !.homogeneous[fold][o] = h], "homogeneous")
     IN /\ Commit(r)
        /\ last_call' = Other
        /\ history' = Bystander(r, FALSE)

SetInterpolateSize(b) ==
  /\ ~ crashed
  /\ child_transition.interpolate_size # b
  /\ LET r == Notify([State EXCEPT !.child_transition.interpolate_size = b],
                     "interpolate-size")
     IN /\ Commit(r)
        /\ last_call' = Other
        /\ history' = Bystander(r, FALSE)

SetOrientation(o) ==
  /\ ~ crashed
  /\ orientation # o
  /\ LET r == Notify([State EXCEPT !.orientation = o], "orientation")
     IN /\ Commit(r)
        /\ last_call' = Other
        /\ history' = Bystander(r, FALSE)

\* The toolkit shows, realizes, maps, unmaps, unrealizes or hides the leaflet
\* (hdy_leaflet_realize, _unrealize, _map and _unmap touch only the windows).
ToolkitStates ==
  { t \in [visible : BOOLEAN, realized : BOOLEAN, mapped : BOOLEAN] :
      t.mapped => t.visible /\ t.realized }

SetToolkitState(t) ==
  /\ ~ crashed
  /\ [visible |-> toolkit.visible, realized |-> toolkit.realized,
      mapped |-> toolkit.mapped] # t
  /\ LET r == [State EXCEPT !.toolkit.visible = t.visible,
                            !.toolkit.realized = t.realized,
                            !.toolkit.mapped = t.mapped]
     IN /\ Commit(r)
        /\ last_call' = Other
        /\ history' = Bystander(r, FALSE)

\* The gtk-enable-animations setting changes
SetEnableAnimations(b) ==
  /\ ~ crashed
  /\ toolkit.enable_animations # b
  /\ LET r == [State EXCEPT !.toolkit.enable_animations = b]
     IN /\ Commit(r)
        /\ last_call' = Other
        /\ history' = Bystander(r, FALSE)

Next ==
  \/ \E vis \in BOOLEAN : Add(vis)
  \/ \E w \in Widgets : Remove(w)
  \/ \E w \in Widgets, vis \in BOOLEAN : SetChildWidgetVisible(w, vis)
  \/ \E w \in Widgets, allow \in BOOLEAN : SetAllowVisible(w, allow)
  \/ \E w \in Widgets, name \in Names : SetName(w, name)
  \/ \E w \in Widgets : SetVisibleChild(w)
  \/ \E w \in Widgets : SetVisibleChildName(w)
  \/ \E d \in NavigationDirections : Navigate(d)
  \/ \E size \in AllocSizes : SizeAllocate(size)
  \/ ChildTick
  \/ ModeTick
  \/ \E d \in NavigationDirections, direct \in BOOLEAN : BeginSwipe(d, direct)
  \/ \E value \in (0 - Steps)..Steps : UpdateSwipe(value)
  \/ \E duration \in Durations, to \in {0 - Steps, 0, Steps} : EndSwipe(duration, to)
  \/ Draw
  \/ \E type \in TransitionTypes : SetTransitionType(type)
  \/ \E duration \in Durations : SetChildTransitionDuration(duration)
  \/ \E duration \in ModeDurations : SetModeTransitionDuration(duration)
  \/ \E can \in BOOLEAN : SetCanSwipeBack(can)
  \/ \E can \in BOOLEAN : SetCanSwipeForward(can)
  \/ \E fold \in {"folded", "unfolded"}, o \in Orientations, h \in BOOLEAN :
       SetHomogeneous(fold, o, h)
  \/ \E b \in BOOLEAN : SetInterpolateSize(b)
  \/ \E o \in Orientations : SetOrientation(o)
  \/ \E t \in ToolkitStates : SetToolkitState(t)
  \/ \E b \in BOOLEAN : SetEnableAnimations(b)

Spec == Init /\ [][Next]_vars

\* ---------------------------------------------------------- restrictions

\* The leaflet out of any window, and shown in a mapped window
Hidden == [visible |-> FALSE, realized |-> FALSE, mapped |-> FALSE]
Shown == [visible |-> TRUE, realized |-> TRUE, mapped |-> TRUE]

\* The leaflet realized in a window that is not mapped
Unmapped == [visible |-> TRUE, realized |-> TRUE, mapped |-> FALSE]

\* Add to a leaflet of fewer than FewChildren children
AddFew(vis) ==
  /\ Len(children) < FewChildren
  /\ Add(vis)

\* The leaflet as the fold decision sees it: children come, are shown and
\* hidden, one is made the visible child, the leaflet is allocated sizes,
\* transitions run, and the properties the decision reads change.
NextFold ==
  \/ \E vis \in BOOLEAN : AddFew(vis)
  \/ \E w \in Widgets, vis \in BOOLEAN : SetChildWidgetVisible(w, vis)
  \/ \E w \in Widgets : SetVisibleChild(w)
  \/ \E size \in AllocSizes : SizeAllocate(size)
  \/ ChildTick
  \/ ModeTick
  \/ \E type \in {HDY_LEAFLET_TRANSITION_TYPE_NONE, HDY_LEAFLET_TRANSITION_TYPE_OVER} :
       SetTransitionType(type)
  \/ \E h \in BOOLEAN : SetHomogeneous("unfolded", GTK_ORIENTATION_HORIZONTAL, h)
  \/ \E t \in {Hidden, Shown} : SetToolkitState(t)

SpecFold == Init /\ [][NextFold]_vars

\* ------------------------------------------------------------------ claims

\* Sum of the natural sizes the children report in the current state
NaturalSum == SumSizes([w \in Widgets |-> ChildNat(State, w)], children)

ChildVisibleSet == { w \in Range(children) : child_visible[w] }

\* C2: after a size allocation with the visible child present and its widget
\* visible, the mode position at its target and no last visible child, a
\* folded leaflet marks exactly the visible child child-visible, and an
\* unfolded one marks every child whose widget is visible.
C2_ChildVisibleAfterAllocation ==
  ( /\ last_call.op = "size_allocate"
    /\ ~ crashed
    /\ visible_child # NULL
    /\ widget_visible[visible_child]
    /\ mode_transition.current_pos = mode_transition.target_pos
    /\ last_visible_child = NULL )
  => IF folded
       THEN ChildVisibleSet = {visible_child}
       ELSE \A w \in Range(children) : widget_visible[w] => child_visible[w]

\* A folded allocation of two visible children, the second one being the
\* visible child, at rest
C2_Witness ==
  /\ last_call.op = "size_allocate"
  /\ ~ crashed
  /\ folded
  /\ Len(children) = 2
  /\ \A w \in Range(children) : widget_visible[w]
  /\ visible_child = children[2]
  /\ mode_transition.current_pos = mode_transition.target_pos
  /\ last_visible_child = NULL
  /\ ChildVisibleSet = {visible_child}

\* The leaflet as a switch request sees it: two visible children, the last
\* one named or not, a leaflet that is shown, folded and unfolded by its
\* allocations, direct forward swipes completed and cancelled, and requests by
\* widget and by name.
NextSwitch ==
  \/ AddFew(TRUE)
  \/ SetName(FewChildren, "a")
  \/ \E w \in Widgets : SetVisibleChild(w)
  \/ \E w \in Widgets : SetVisibleChildName(w)
  \/ \E size \in {1, MaxAlloc} : SizeAllocate(size)
  \/ ChildTick
  \/ ModeTick
  \/ BeginSwipe(HDY_NAVIGATION_DIRECTION_FORWARD, TRUE)
  \/ \E to \in {0, Steps} : EndSwipe(DefaultChildDuration, to)
  \/ SetTransitionType(HDY_LEAFLET_TRANSITION_TYPE_OVER)
  \/ SetCanSwipeForward(TRUE)
  \/ SetToolkitState(Shown)

SpecSwitch == Init /\ [][NextSwitch]_vars

\* The name of the child w belongs to no other child
UniqueName(w) ==
  \A x \in Range(children) : x # w => child_info[x].name # child_info[w].name

\* C3: immediately after set_visible_child(w), or set_visible_child_name with
\* the name of w, a name that no other child has, returns, get_visible_child
\* returns w.
C3_VisibleChildIsTheOneSet ==
  ( /\ last_call.op \in {"set_visible_child", "set_visible_child_name"}
    /\ ~ crashed
    /\ last_call.op = "set_visible_child_name" => UniqueName(last_call.w) )
  => hdy_leaflet_get_visible_child(State) = last_call.w

\* C4: when set_visible_child(w) was called while a child transition was
\* running and no switch request or swipe followed, the visible child is w
\* once the child transitions have finished.
C4_RequestedChildVisibleWhenSettled ==
  (history.phase = "settled" /\ ~ crashed) => visible_child = history.requested

\* The leaflet as navigation sees it: up to MaxChildren visible children whose
\* allow-visible property is switched off and on, each can-swipe property left
\* at its default or set, a leaflet that is shown and folded by a narrow
\* allocation, programmatic switches, navigate in both directions, and direct
\* forward swipes completed and cancelled.
NextNav ==
  \/ Add(TRUE)
  \/ \E w \in Widgets, allow \in BOOLEAN : SetAllowVisible(w, allow)
  \/ \E w \in Widgets : SetVisibleChild(w)
  \/ \E d \in NavigationDirections : Navigate(d)
  \/ SetCanSwipeBack(TRUE)
  \/ SetCanSwipeForward(TRUE)
  \/ SizeAllocate(1)
  \/ BeginSwipe(HDY_NAVIGATION_DIRECTION_FORWARD, TRUE)
  \/ \E to \in {0, Steps} : EndSwipe(DefaultChildDuration, to)
  \/ SetToolkitState(Shown)

SpecNav == Init /\ [][NextNav]_vars

\* The positions, in the list of children, of the children lying in the given
\* direction from the visible child that have allow-visible TRUE.
NavigatableInDirection(direction) ==
  LET k == IndexOf(State, visible_child)
  IN { i \in 1..Len(children) :
         /\ IF direction = HDY_NAVIGATION_DIRECTION_BACK THEN i < k ELSE i > k
         /\ child_info[children[i]].allow_visible }

\* The nearest child with allow-visible TRUE in the given direction from the
\* visible child, NULL when there is none.
NearestNavigatable(direction) ==
  LET c == NavigatableInDirection(direction)
  IN IF c = {} THEN NULL
     ELSE children[IF direction = HDY_NAVIGATION_DIRECTION_BACK
                     THEN CHOOSE i \in c : \A j \in c : j <= i
                     ELSE CHOOSE i \in c : \A j \in c : i <= j]

\* The can-swipe properties have the values a new leaflet has.
DefaultCanSwipe ==
  ~ child_transition.can_swipe_back /\ ~ child_transition.can_swipe_forward

\* C6: on a leaflet whose can-swipe properties have their default values and
\* that has a visible child, navigate returns TRUE and makes the nearest child
\* with allow-visible TRUE in the direction the visible child when there is
\* one, and returns FALSE and leaves the visible child alone when there is
\* none.
C6_NavigateOnDefaultLeaflet ==
  [][ ( /\ last_call'.op = "navigate"
        /\ DefaultCanSwipe
        /\ visible_child # NULL )
      => LET target == NearestNavigatable(last_call'.dir)
         IN IF target # NULL
              THEN last_call'.ret /\ visible_child' = target
              ELSE ~ last_call'.ret /\ visible_child' = visible_child ]_vars

C8_NeverSelectsChildNotAllowVisible ==
  [][ ( /\ last_call'.op \in {"navigate", "begin_swipe"}
        /\ ~ crashed'
        /\ visible_child' # visible_child )
      => child_info[visible_child'].allow_visible ]_vars

\* The leaflet as a swipe sees it: two visible children, a leaflet that is
\* shown, folded and unfolded by its allocations, programmatic switches, and
\* direct swipes in both directions, updated, completed and cancelled.
NextSwipe ==
  \/ AddFew(TRUE)
  \/ \E w \in Widgets : SetVisibleChild(w)
  \/ \E size \in {1, MaxAlloc} : SizeAllocate(size)
  \/ ChildTick
  \/ ModeTick
  \/ \E d \in NavigationDirections : BeginSwipe(d, TRUE)
  \/ \E value \in (0 - Steps)..Steps : UpdateSwipe(value)
  \/ \E to \in {0 - Steps, 0, Steps} : EndSwipe(DefaultChildDuration, to)
  \/ SetTransitionType(HDY_LEAFLET_TRANSITION_TYPE_OVER)
  \/ SetCanSwipeBack(TRUE)
  \/ SetCanSwipeForward(TRUE)
  \/ SetToolkitState(Shown)

SpecSwipe == Init /\ [][NextSwipe]_vars

\* C5: when a swipe that selected a child at begin_swipe was cancelled and no
\* switch was requested meanwhile, the visible child is the one from before
\* begin_swipe once the animation is over, whatever happened to the fold state
\* and to the visibility of the leaflet meanwhile.
C5_CancelledSwipeRestoresVisibleChild ==
  ( /\ history.phase = "done"
    /\ history.selected
    /\ history.cancelled
    /\ ~ crashed )
  => visible_child = history.origin

\* The visible child is not earlier than the child w where swiping back is
\* off, and not later where swiping forward is off.
MovedOnlyWhereAllowed(w) ==
  /\ ~ child_transition.can_swipe_back
       => IndexOf(State, visible_child) >= IndexOf(State, w)
  /\ ~ child_transition.can_swipe_forward
       => IndexOf(State, visible_child) <= IndexOf(State, w)

\* C9: after every direct swipe, through the end of its animation, the
\* visible child has moved from the one before begin_swipe only in a direction
\* whose can-swipe property is TRUE: it is not earlier in the child order when
\* can-swipe-back is FALSE and not later when can-swipe-forward is FALSE. The
\* swipes that begin while a child transition is animating are included.
C9_DirectSwipeMovesOnlyWhereAllowed ==
  (history.phase = "done" /\ history.direct /\ ~ crashed)
  => MovedOnlyWhereAllowed(history.origin)

\* The leaflet as drawing sees it: two visible children, a leaflet that is
\* shown, folded and unfolded by its allocations, the transition type and the
\* child transition duration changed at any moment, direct forward swipes
\* completed and cancelled, and draws.
NextDraw ==
  \/ AddFew(TRUE)
  \/ \E size \in {1, MaxAlloc} : SizeAllocate(size)
  \/ ChildTick
  \/ ModeTick
  \/ BeginSwipe(HDY_NAVIGATION_DIRECTION_FORWARD, TRUE)
  \/ \E to \in {0, Steps} : EndSwipe(DefaultChildDuration, to)
  \/ Draw
  \/ \E type \in TransitionTypes : SetTransitionType(type)
  \/ \E duration \in Durations : SetChildTransitionDuration(duration)
  \/ SetCanSwipeForward(TRUE)
  \/ SetToolkitState(Shown)

SpecDraw == Init /\ [][NextDraw]_vars

\* C10: whenever the leaflet is folded with a visible child, its mode tracker
\* is finished and draw takes the child-transition path (a gesture is active
\* and the transition type is not NONE, or the child tracker is not finished),
\* the active child transition type is SLIDE, OVER or UNDER, and no draw has
\* hit g_assert_not_reached.
C10_DrawNeverReachesAssert ==
  ( /\ folded
    /\ visible_child # NULL
    /\ GTK_PROGRESS_STATE_AFTER(mode_transition.tracker)
    /\ \/ /\ child_transition.is_gesture_active
          /\ transition_type # HDY_LEAFLET_TRANSITION_TYPE_NONE
       \/ ~ GTK_PROGRESS_STATE_AFTER(child_transition.tracker) )
  => /\ child_transition.active_type \in
          { HDY_LEAFLET_TRANSITION_TYPE_SLIDE, HDY_LEAFLET_TRANSITION_TYPE_OVER,
            HDY_LEAFLET_TRANSITION_TYPE_UNDER }
     /\ ~ crashed

\* C11: every step that changes the value of
\* hdy_leaflet_get_child_transition_running (TRUE while the child tick
\* callback is scheduled or a gesture is active), in either direction,
\* notifies child-transition-running.
C11_RunningChangeIsNotified ==
  [][ ( /\ ~ crashed'
        /\ (child_transition'.tick_id \/ child_transition'.is_gesture_active)
             # hdy_leaflet_get_child_transition_running(State) )
      => running_notified' ]_vars

\* The tick callback has just ended the animation of a swipe: the value went
\* from TRUE to FALSE and the step notified.
C11_Witness ==
  /\ history.phase = "done"
  /\ last_call = Other
  /\ running_notified
  /\ ~ hdy_leaflet_get_child_transition_running(State)
  /\ transition_type # HDY_LEAFLET_TRANSITION_TYPE_NONE
  /\ ~ crashed

\* The leaflet as the frame clock sees it: two visible children, a leaflet
\* that is shown, unmapped and mapped again, folded and unfolded by its
\* allocations, programmatic switches, and direct forward swipes completed
\* and cancelled. While the child tick callback is scheduled the application
\* switches only to a later child, so that it restarts a child transition
\* finitely often. The frame clock keeps delivering ticks to a realized widget
\* as long as a tick callback is scheduled.
SwitchOnward(w) ==
  /\ child_transition.tick_id
       => IndexOf(State, w) > IndexOf(State, visible_child)
  /\ SetVisibleChild(w)

NextLive ==
  \/ AddFew(TRUE)
  \/ \E w \in Widgets : SwitchOnward(w)
  \/ \E size \in {1, MaxAlloc} : SizeAllocate(size)
  \/ ChildTick
  \/ ModeTick
  \/ BeginSwipe(HDY_NAVIGATION_DIRECTION_FORWARD, TRUE)
  \/ \E to \in {0, Steps} : EndSwipe(DefaultChildDuration, to)
  \/ SetTransitionType(HDY_LEAFLET_TRANSITION_TYPE_OVER)
  \/ SetCanSwipeForward(TRUE)
  \/ \E t \in {Shown, Unmapped} : SetToolkitState(t)

\* The guards of ChildTick and ModeTick; the callbacks are total, and a tick
\* always changes the tracker, first_frame_skipped or tick_id, so these are
\* ENABLED <<ChildTick>>_vars and ENABLED <<ModeTick>>_vars.
ChildTickEnabled == ~ crashed /\ toolkit.realized /\ child_transition.tick_id
ModeTickEnabled == ~ crashed /\ toolkit.realized /\ mode_transition.tick_id

\* WF_vars(ChildTick) and WF_vars(ModeTick), written out
FairChildTick == []<>(~ ChildTickEnabled) \/ []<><<ChildTick>>_vars
FairModeTick == []<>(~ ModeTickEnabled) \/ []<><<ModeTick>>_vars

SpecLive == Init /\ [][NextLive]_vars /\ FairChildTick /\ FairModeTick

\* No child transition is in progress: the tick callback is unscheduled, the
\* child tracker is finished, there is no last visible child and
\* child-transition-running is FALSE.
ChildTransitionOver ==
  /\ ~ child_transition.tick_id
  /\ GTK_PROGRESS_STATE_AFTER(child_transition.tracker)
  /\ last_visible_child = NULL
  /\ ~ hdy_leaflet_get_child_transition_running(State)

\* C12: every state where the child tick callback is scheduled is followed by
\* a state where no child transition is in progress, or where a swipe has
\* interrupted it; and on a widget that is not mapped a single tick ends the
\* transition.
C12_ChildTransitionTerminates ==
  /\ child_transition.tick_id
       ~> (crashed \/ child_transition.is_gesture_active \/ ChildTransitionOver)
  /\ [][ ( /\ ChildTick
           /\ ~ toolkit.mapped
           /\ ~ crashed' )
         => ChildTransitionOver' ]_vars

\* A time-based child transition has run to its end on the mapped leaflet:
\* the tick callback was scheduled by a programmatic switch and is gone.
C12_Witness ==
  /\ history.phase = "settled"
  /\ ChildTransitionOver
  /\ toolkit.mapped
  /\ running_notified
  /\ transition_type = HDY_LEAFLET_TRANSITION_TYPE_OVER
  /\ ~ crashed

\* The leaflet as a size request sees it: children come, visible or not, one
\* is made the visible child, the leaflet is allocated sizes,
\* child and mode transitions run, and the properties that the request
\* reads change.
NextMeasure ==
  \/ \E vis \in BOOLEAN : AddFew(vis)
  \/ \E w \in Widgets : SetVisibleChild(w)
  \/ \E size \in {1, MaxAlloc} : SizeAllocate(size)
  \/ ChildTick
  \/ ModeTick
  \/ SetTransitionType(HDY_LEAFLET_TRANSITION_TYPE_OVER)
  \/ \E o \in Orientations, h \in BOOLEAN : SetHomogeneous("folded", o, h)
  \/ SetInterpolateSize(TRUE)
  \/ SetOrientation(GTK_ORIENTATION_VERTICAL)
  \/ SetToolkitState(Shown)

SpecMeasure == Init /\ [][NextMeasure]_vars

\* The largest minimum size among the children whose widget is visible
MaxVisibleMin ==
  LET mins == { MinSize(w) : w \in { x \in Range(children) : widget_visible[x] } }
  IN IF mins = {} THEN 0 ELSE CHOOSE m \in mins : \A n \in mins : n <= m

\* C13: in an orientation for which the leaflet is homogeneous when folded,
\* the minimum size that hdy_leaflet_measure requests is the largest minimum
\* size of the visible children, whatever the visible child and the progress
\* of the child transition.
C13_HomogeneousFoldedMinimumIsMaxMin ==
  \A o \in Orientations :
    homogeneous.folded[o] => hdy_leaflet_measure(State, o).minimum = MaxVisibleMin

\* A request made in the middle of a child transition that interpolates the
\* size, from a child with the largest minimum size to one with a smaller
\* minimum size, in the orientation of the leaflet.
C13_Witness ==
  /\ homogeneous.folded[orientation]
  /\ child_transition.tick_id
  /\ child_transition.interpolate_size
  /\ visible_child # NULL
  /\ last_visible_child # NULL
  /\ ChildMin(State, visible_child) < MaxVisibleMin
  /\ ChildMin(State, last_visible_child) = MaxVisibleMin
  /\ hdy_leaflet_measure(State, orientation).minimum = MaxVisibleMin
  /\ ~ crashed

\* The leaflet as the mode transition sees it: two visible children, a
\* leaflet that is shown, unmapped, hidden and mapped again, folded and
\* unfolded by its allocations with and without animations, while child
\* transitions start and run.
NextMode ==
  \/ AddFew(TRUE)
  \/ \E w \in Widgets : SetVisibleChild(w)
  \/ \E size \in {1, MaxAlloc} : SizeAllocate(size)
  \/ ChildTick
  \/ ModeTick
  \/ \E type \in {HDY_LEAFLET_TRANSITION_TYPE_NONE, HDY_LEAFLET_TRANSITION_TYPE_OVER} :
       SetTransitionType(type)
  \/ \E duration \in ModeDurations : SetModeTransitionDuration(duration)
  \/ \E b \in BOOLEAN : SetEnableAnimations(b)
  \/ \E t \in {Hidden, Shown, Unmapped} : SetToolkitState(t)

SpecMode == Init /\ [][NextMode]_vars

\* C14: in every reachable state the target position of the mode transition
\* is 0 when the leaflet is folded and 1 (Steps) when it is unfolded.
C14_TargetPosMatchesFolded ==
  mode_transition.target_pos = (IF folded THEN 0 ELSE Steps)

\* The leaflet was folded, the fold animation ran to its end, and an
\* allocation has unfolded it again: the unfold animation starts from 0.
C14_Witness ==
  /\ ~ folded
  /\ mode_transition.tick_id
  /\ mode_transition.source_pos = 0
  /\ mode_transition.current_pos = 0
  /\ mode_transition.target_pos = Steps
  /\ ~ crashed

\* C15: the mode-transition tick callback and the child-transition tick
\* callback are never scheduled in the same state.
C15_NeverBothTicksScheduled ==
  ~ (mode_transition.tick_id /\ child_transition.tick_id)

\* C19: whenever the mode-transition tick callback is not scheduled, the
\* position of the mode transition equals its target.
C19_IdleModePositionIsTarget ==
  ~ mode_transition.tick_id
    => mode_transition.current_pos = mode_transition.target_pos

\* An allocation has folded a leaflet that is not mapped, with a transition
\* type and animations enabled: the position jumped to 0 without a tick, and
\* no fold was animated before.
C19_Witness ==
  /\ last_call.op = "size_allocate"
  /\ folded
  /\ ~ toolkit.mapped
  /\ toolkit.enable_animations
  /\ transition_type = HDY_LEAFLET_TRANSITION_TYPE_OVER
  /\ mode_transition.duration # 0
  /\ ~ mode_transition.tick_id
  /\ mode_transition.source_pos = 0
  /\ mode_transition.current_pos = 0
  /\ ~ crashed

\* The child transition in progress leads to a later child of the list
RunningForward ==
  /\ last_visible_child # NULL
  /\ IndexOf(State, last_visible_child) < IndexOf(State, visible_child)

\* C16: a begin_swipe made while the child tick callback is scheduled removes
\* the callback, makes the gesture active, clears the cancelled flag, leaves
\* the visible and the last visible child unchanged, and confirms the swipe
\* with the two snap points 0 and the end point in the direction of the
\* running transition, and with the progress of the running transition as
\* starting progress (a transition runs from the last visible child to the
\* visible child: the points and the progress are stated where there is a
\* last visible child).
C16_SwipeInterruptsChildTransition ==
  [][ ( /\ last_call'.op = "begin_swipe"
        /\ child_transition.tick_id
        /\ ~ crashed' )
      => /\ ~ child_transition'.tick_id
         /\ child_transition'.is_gesture_active
         /\ ~ child_transition'.is_cancelled
         /\ visible_child' = visible_child
         /\ last_visible_child' = last_visible_child
         /\ swipe_tracker'.swiping
         /\ last_visible_child # NULL =>
              /\ swipe_tracker'.points =
                   (IF RunningForward THEN {0, Steps} ELSE {0 - Steps, 0})
              /\ swipe_tracker'.progress =
                   (IF RunningForward THEN child_transition.progress
                                      ELSE 0 - child_transition.progress) ]_vars

\* C17: in every reachable state an active gesture implies that the child
\* tick callback is not scheduled, and every step that changes the progress
\* of the child transition while the gesture stays active is an update_swipe,
\* which sets it to the absolute value of the value it is given.
C17_GestureDrivesChildTransition ==
  /\ [](child_transition.is_gesture_active => ~ child_transition.tick_id)
  /\ [][ ( /\ child_transition.is_gesture_active
           /\ child_transition'.is_gesture_active
           /\ child_transition'.progress # child_transition.progress
           /\ ~ crashed' )
         => \E value \in (0 - Steps)..Steps :
              /\ UpdateSwipe(value)
              /\ child_transition'.progress = Abs(value) ]_vars

\* The leaflet as a container: up to MaxChildren children are added, visible
\* or not, between the other operations of a folded or unfolded leaflet.
NextAdd ==
  \/ \E vis \in BOOLEAN : Add(vis)
  \/ \E w \in Widgets : SetVisibleChild(w)
  \/ \E size \in {1, MaxAlloc} : SizeAllocate(size)
  \/ ChildTick
  \/ ModeTick
  \/ SetTransitionType(HDY_LEAFLET_TRANSITION_TYPE_OVER)
  \/ SetToolkitState(Shown)

SpecAdd == Init /\ [][NextAdd]_vars

\* C18: hdy_leaflet_add appends: a widget that becomes a child is put at the
\* end of the children list and the children before it keep their places, so
\* that the i-th child added (the widget i) is the i-th child of the list.
C18_AddAppends ==
  /\ [](\A i \in 1..Len(children) : children[i] = i)
  /\ [][ \A w \in Widgets :
           (w \notin Range(children) /\ w \in Range(children'))
             => children' = Append(children, w) ]_vars

\* MaxChildren children have been added, the first of them not visible, to
\* a leaflet that has meanwhile folded.
C18_Witness ==
  /\ Len(children) = MaxChildren
  /\ ~ widget_visible[1]
  /\ visible_child = 2
  /\ folded
  /\ ~ crashed

\* The mode transition is at rest on its target
ModeTransitionOver ==
  /\ ~ mode_transition.tick_id
  /\ mode_transition.current_pos = mode_transition.target_pos

C21_FoldChangeStopsChildTransition ==
  [][ ( /\ folded' # folded
        /\ ~ crashed' )
      => /\ ~ child_transition'.tick_id
         /\ GTK_PROGRESS_STATE_AFTER(child_transition'.tracker)
         /\ child_transition'.active_type = HDY_LEAFLET_TRANSITION_TYPE_NONE
         /\ last_visible_child' = NULL
         /\ ~ (child_transition'.tick_id \/ child_transition'.is_gesture_active) ]_vars

\* priv->visible_child or priv->last_visible_child points to a child info
\* that hdy_leaflet_remove has freed
Dangling ==
  \/ visible_child \notin {NULL} \cup Range(children)
  \/ last_visible_child \notin {NULL} \cup Range(children)

\* The leaflet as a container that loses children: children are added,
\* visible or not, shown, hidden and removed, one is made the visible child,
\* and child transitions run on the folded leaflet. Every
\* operation on a leaflet that holds a pointer to a freed child info reads or
\* writes freed memory: the leaflet is followed up to the first such state.
NextRemove ==
  \/ \E vis \in BOOLEAN : ~ Dangling /\ AddFew(vis)
  \/ \E w \in Widgets : ~ Dangling /\ Remove(w)
  \/ \E w \in Widgets, vis \in BOOLEAN : ~ Dangling /\ SetChildWidgetVisible(w, vis)
  \/ \E w \in Widgets : ~ Dangling /\ SetVisibleChild(w)
  \/ \E size \in {1, MaxAlloc} : ~ Dangling /\ SizeAllocate(size)
  \/ ~ Dangling /\ ChildTick
  \/ ~ Dangling /\ ModeTick
  \/ ~ Dangling /\ SetTransitionType(HDY_LEAFLET_TRANSITION_TYPE_OVER)
  \/ ~ Dangling /\ SetToolkitState(Shown)

SpecRemove == Init /\ [][NextRemove]_vars

\* C22: in every reachable state the visible child and the last visible
\* child are each NULL or a child of the current children list.
C22_VisibleChildrenAreChildren ==
  ~ crashed =>
    /\ visible_child \in {NULL} \cup Range(children)
    /\ last_visible_child \in {NULL} \cup Range(children)

\* The first child of the list whose widget is visible, NULL when none is
FirstVisibleRemaining == FirstVisibleChild(State)

\* C23: a removal of the visible child completes, and leaves as visible child
\* the first remaining child whose widget is visible, or none (NULL) when no
\* remaining child has a visible widget.
C23_RemoveVisibleChildSelectsFirstVisible ==
  [][ ( /\ last_call'.op = "remove"
        /\ visible_child = last_call'.w )
      => /\ ~ crashed'
         /\ visible_child' = FirstVisibleRemaining' ]_vars

\* C24: whenever the widget of at least one child is visible, the leaflet
\* has a visible child, which is one of its children.
C24_VisibleWidgetImpliesVisibleChild ==
  (~ crashed /\ \E w \in Range(children) : widget_visible[w])
    => visible_child \in Range(children)

\* C25: a step that sets allow-visible to FALSE on the visible child, while
\* another child has a visible widget and allow-visible TRUE, leaves another
\* child as the visible child, and that child has allow-visible TRUE.
C25_DisallowedVisibleChildIsReplaced ==
  [][ \A w \in Range(children) :
        ( /\ visible_child = w
          /\ child_info[w].allow_visible
          /\ ~ child_info'[w].allow_visible
          /\ \E x \in Range(children) \ {w} :
               widget_visible[x] /\ child_info[x].allow_visible
          /\ ~ crashed' )
        => /\ visible_child' \in Range(children) \ {w}
           /\ child_info'[visible_child'].allow_visible ]_vars

\* C26: an allocation that gives the leaflet, along its orientation, exactly
\* the natural size that hdy_leaflet_measure reports for that orientation
\* leaves the leaflet unfolded.
C26_NaturalSizeAllocationUnfolds ==
  [][ ( /\ last_call'.op = "size_allocate"
        /\ last_call'.size = hdy_leaflet_measure(State, orientation).natural
        /\ ~ crashed' )
      => ~ folded' ]_vars

====
